---------------------------- MODULE Spec2Model ----------------------------
(***************************************************************************)
(* Householder QR reduction (src/householderQR.cpp): the function          *)
(* householder(a, v, m, n) and the demo program main() that drives it.     *)
(*                                                                         *)
(* The C++ type double is modelled as a binary floating-point format with  *)
(* Prec significant bits, round-to-nearest-even after every operation, an  *)
(* unbounded exponent (no overflow, no underflow), one zero and one NaN.   *)
(* A number is the record [nan, m, e] standing for m * 2^e, with           *)
(* 2^(Prec-1) <= |m| < 2^Prec, or m = 0 and e = 0.                         *)
(***************************************************************************)
EXTENDS Integers, Sequences, FiniteSets, TLC

(* ------------------------------ bounds -------------------------------- *)
\* significant bits of the modelled double
Prec == 12
\* a caller's matrix has m rows and n columns with m + n <= MaxSize
MaxSize == 5
\* the dimensions typed into main() range over -1 .. MaxDim
MaxDim == 3
\* tolerance of the numerical claims, in units of 2^-Prec (relative)
TolUlps == 32
\* the values a caller's matrix entries are drawn from
Vals == {-1, 0, 2}

(* ------------------------ double arithmetic --------------------------- *)
NaN == [nan |-> TRUE, m |-> 0, e |-> 0]
Zero == [nan |-> FALSE, m |-> 0, e |-> 0]

AbsInt(x) == IF x < 0 THEN -x ELSE x
SgnInt(x) == IF x < 0 THEN -1 ELSE IF x = 0 THEN 0 ELSE 1

RECURSIVE BitLen(_)
BitLen(x) == IF x = 0 THEN 0 ELSE 1 + BitLen(x \div 2)

\* largest r with r * r <= x, one bit at a time from bit k down
RECURSIVE ISqrtFrom(_, _, _)
ISqrtFrom(x, r, k) ==
    IF k < 0 THEN r
    ELSE LET t == r + 2^k
         IN  ISqrtFrom(x, IF t * t <= x THEN t ELSE r, k - 1)
ISqrt(x) == ISqrtFrom(x, 0, (BitLen(x) - 1) \div 2)

\* the double nearest to M * 2^E, ties to even
Round(M, E) ==
    IF M = 0 THEN Zero
    ELSE LET A  == AbsInt(M)
             L  == BitLen(A)
             sg == SgnInt(M)
         IN  IF L <= Prec
             THEN [nan |-> FALSE, m |-> sg * A * 2^(Prec - L), e |-> E - (Prec - L)]
             ELSE LET s  == L - Prec
                      q  == A \div 2^s
                      r  == A % 2^s
                      h  == 2^(s - 1)
                      q1 == IF r > h \/ (r = h /\ q % 2 = 1) THEN q + 1 ELSE q
                  IN  IF q1 = 2^Prec
                      THEN [nan |-> FALSE, m |-> sg * 2^(Prec - 1), e |-> E + s + 1]
                      ELSE [nan |-> FALSE, m |-> sg * q1, e |-> E + s]

\* an int converted to double
FromInt(k) == Round(k, 0)

FNeg(x) == IF x.nan THEN NaN ELSE [nan |-> FALSE, m |-> -x.m, e |-> x.e]
FAbs(x) == IF x.nan THEN NaN ELSE [nan |-> FALSE, m |-> AbsInt(x.m), e |-> x.e]

\* x + y
FAdd(x, y) ==
    IF x.nan \/ y.nan THEN NaN
    ELSE IF x.m = 0 THEN y
    ELSE IF y.m = 0 THEN x
    ELSE LET hi == IF x.e >= y.e THEN x ELSE y
             lo == IF x.e >= y.e THEN y ELSE x
             d  == hi.e - lo.e
         IN  IF d >= Prec + 2 THEN hi ELSE Round(hi.m * 2^d + lo.m, lo.e)

\* x - y
FSub(x, y) == FAdd(x, FNeg(y))

\* x * y
FMul(x, y) == IF x.nan \/ y.nan THEN NaN ELSE Round(x.m * y.m, x.e + y.e)

\* x / y; 0 / 0 is NaN (IEEE 754). A nonzero x over 0 would be an infinity;
\* the reducer divides by zero only vectors that are entirely zero.
FDiv(x, y) ==
    IF x.nan \/ y.nan \/ y.m = 0 THEN NaN
    ELSE IF x.m = 0 THEN Zero
    ELSE LET N  == AbsInt(x.m) * 2^(Prec + 2)
             D  == AbsInt(y.m)
             q  == N \div D
             st == IF N % D = 0 THEN 0 ELSE 1
         IN  Round(SgnInt(x.m) * SgnInt(y.m) * (2 * q + st), x.e - y.e - (Prec + 3))

\* sqrt(x); the square root of a negative number is NaN
FSqrt(x) ==
    IF x.nan \/ x.m < 0 THEN NaN
    ELSE IF x.m = 0 THEN Zero
    ELSE LET k  == IF (x.e - (Prec + 3)) % 2 = 0 THEN Prec + 3 ELSE Prec + 4
             M  == x.m * 2^k
             r  == ISqrt(M)
             st == IF r * r = M THEN 0 ELSE 1
         IN  Round(2 * r + st, ((x.e - k) \div 2) - 1)

\* x < y; false when either is NaN
FLess(x, y) ==
    /\ ~x.nan
    /\ ~y.nan
    /\ LET sx == SgnInt(x.m)
           sy == SgnInt(y.m)
           magLess(p, q) == p.e < q.e \/ (p.e = q.e /\ AbsInt(p.m) < AbsInt(q.m))
       IN  IF sx # sy THEN sx < sy
           ELSE IF sx = 0 THEN FALSE
           ELSE IF sx = 1 THEN magLess(x, y) ELSE magLess(y, x)

\* x <= y; false when either is NaN
FLeq(x, y) == ~x.nan /\ ~y.nan /\ ~FLess(y, x)

IsZero(x) == ~x.nan /\ x.m = 0

(* ------------------- vectors and the vector primitives ---------------- *)
\* A vector of length len is a function on 0 .. len-1. A read outside the
\* allocated range yields an indeterminate value (NaN here); the step that
\* makes such an access is flagged by the bounds predicates further down.
EmptyVec == [k \in {} |-> Zero]
At(vec, k) == IF k \in DOMAIN vec THEN vec[k] ELSE NaN
Row(mat, k) == IF k \in DOMAIN mat THEN mat[k] ELSE EmptyVec
Put(mat, k, vec) == IF k \in DOMAIN mat THEN [mat EXCEPT ![k] = vec] ELSE mat
InRange(vec, lo, len) == \A k \in lo .. (lo + len - 1) : k \in DOMAIN vec

\* acc + sum of u[uoff + t] * w[t] for t = k .. len-1, accumulated in index order
RECURSIVE SumProd(_, _, _, _, _, _)
SumProd(u, uoff, w, k, len, acc) ==
    IF k >= len THEN acc
    ELSE SumProd(u, uoff, w, k + 1, len, FAdd(acc, FMul(At(u, uoff + k), At(w, k))))

\* copies src[offset .. offset+len) into dst[0 .. len)
partialvec_copy(src, dst, len, offset) ==
    [k \in DOMAIN dst |-> IF k < len THEN At(src, offset + k) ELSE dst[k]]

\* sum of u[k] * w[k] for k in [skip, len)
partialdot_product(u, w, len, skip) == SumProd(u, 0, w, skip, len, Zero)

\* sum of u[offset+k] * w[k] for k in [0, len)
subdot_product(u, w, len, offset) == SumProd(u, offset, w, 0, len, Zero)

\* out[k] = w[k] / scalar for k in [0, len)
scalar_div(w, scalar, len, out) ==
    [k \in DOMAIN out |-> IF k < len THEN FDiv(At(w, k), scalar) ELSE out[k]]

\* inout[offset+k] -= coef * w[k] for k in [0, len)
partialscalar_sub(w, coef, len, offset, inout) ==
    [k \in DOMAIN inout |->
        IF k >= offset /\ k - offset < len
        THEN FSub(inout[k], FMul(coef, At(w, k - offset)))
        ELSE inout[k]]

\* full-length inner product
dot_product(u, w, len) == SumProd(u, 0, w, 0, len, Zero)

(* ------------------------------- state -------------------------------- *)
VARIABLES
    m, n,        \* the dimensions
    a,           \* a[j]: column j of A, overwritten by R
    v,           \* v[i]: the i-th reflection vector, of capacity m - i
    i, j,        \* householder's loop variables
    vpartdot, vnorm, vTa,   \* householder's locals
    x,           \* main's local: the last squared norm it computed
    pc,          \* the position in the code
    pending,     \* the columns the inner loop has still to reflect
    caller,      \* "main" when householder was called from main
    exitCode,    \* main's exit code, -1 while it runs
    a0,          \* history: the matrix householder was called with
    aStart,      \* history: the matrix when the current outer iteration began
    zeroNorm,    \* history: the iterations whose vector was divided by a zero norm
    oob          \* history: some access was outside its array

vars == <<m, n, a, v, i, j, vpartdot, vnorm, vTa, x, pc, pending, caller,
          exitCode, a0, aStart, zeroNorm, oob>>

locals == <<vpartdot, vnorm, vTa>>
hist == <<a0, aStart, zeroNorm>>
mainVars == <<x, caller, exitCode>>

(* ------------------------ householder, line by line ------------------- *)
\* a loop test that lets i reach n
OuterCondInclusive(ii, nn) == ii <= nn
\* for(i = 0; i < n; i++): the loop test
OuterCond(ii, nn) == ii < nn
\* an inner loop that starts at column 0, and one that skips column i
InnerStartZero(ii) == 0
InnerStartNext(ii) == ii + 1
\* for(j = i; j < n; j++): the first column and the loop test
InnerStart(ii) == ii
InnerCond(jj, nn) == jj < nn
\* the length m - i of the active sub-column
ActiveLen(mm, ii) == mm - ii

\* a sign test that counts zero as negative
IsNegativeOrZero(y) == FLeq(y, Zero)
\* v[i][0] < 0
IsNegative(y) == FLess(y, Zero)
\* a norm that leaves out the tail vpartdot
NormOfNoTail(v0, tail) == FSqrt(FMul(v0, v0))
\* sqrt(v[i][0] * v[i][0] + vpartdot)
NormOf(v0, tail) == FSqrt(FAdd(FMul(v0, v0), tail))
\* an update that adds the norm whatever the sign
SignUpdateAlwaysAdd(v0, tail) == FAdd(v0, NormOf(v0, tail))
\* v[i][0] -= norm when v[i][0] < 0, v[i][0] += norm otherwise
SignUpdate(v0, tail) ==
    IF IsNegative(v0) THEN FSub(v0, NormOf(v0, tail)) ELSE FAdd(v0, NormOf(v0, tail))

\* a coefficient taken from the pivot column i instead of column j
DotColumnPivot(ii, jj) == ii
\* the column the coefficient vTa is computed from: the column being updated
DotColumn(ii, jj) == jj
\* a coefficient without the doubling vTa *= 2
CoefOnce(col, vi, len, off) == subdot_product(col, vi, len, off)
\* vTa = 2 * subdot_product(a[j], v[i], m - i, i)
Coef(col, vi, len, off) == FMul(subdot_product(col, vi, len, off), FromInt(2))
\* a[j][i:m] = a[j][i:m] - vTa * v[i]
ReflectColumn(mat, vi, mm, ii, jj) ==
    LET c == Coef(Row(mat, DotColumn(ii, jj)), vi, ActiveLen(mm, ii), ii)
    IN  Put(mat, jj, partialscalar_sub(vi, c, ActiveLen(mm, ii), ii, Row(mat, jj)))

\* a step at an out-of-range access: the behaviour is undefined from here on
Undefined ==
    /\ pc' = "ub"
    /\ oob' = TRUE
    /\ UNCHANGED <<m, n, a, v, i, j, locals, pending, hist, mainVars>>

\* line 36: partialvec_copy(a[i], v[i], m - i, i)
Copy ==
    /\ pc = "copy"
    /\ OuterCond(i, n)
    /\ IF /\ i \in DOMAIN a
          /\ i \in DOMAIN v
          /\ ActiveLen(m, i) >= 1
          /\ InRange(a[i], i, ActiveLen(m, i))
          /\ InRange(v[i], 0, ActiveLen(m, i))
       THEN /\ v' = Put(v, i, partialvec_copy(a[i], v[i], ActiveLen(m, i), i))
            /\ aStart' = a
            /\ pc' = "dot"
            /\ UNCHANGED <<m, n, a, i, j, locals, pending, a0, zeroNorm, oob, mainVars>>
       ELSE Undefined

\* line 42: vpartdot = partialdot_product(v[i], v[i], m - i, 1)
PartDot ==
    /\ pc = "dot"
    /\ vpartdot' = partialdot_product(v[i], v[i], ActiveLen(m, i), 1)
    /\ pc' = "sign"
    /\ UNCHANGED <<m, n, a, v, i, j, vnorm, vTa, pending, hist, oob, mainVars>>

\* lines 45-50: v[i][0] = v[i][0] + sign(v[i][0]) * ||v[i]||
Sign ==
    /\ pc = "sign"
    /\ v' = [v EXCEPT ![i][0] = SignUpdate(v[i][0], vpartdot)]
    /\ pc' = "norm"
    /\ UNCHANGED <<m, n, a, i, j, locals, pending, hist, oob, mainVars>>

\* line 53: vnorm = sqrt(v[i][0] * v[i][0] + vpartdot)
Norm ==
    /\ pc = "norm"
    /\ vnorm' = NormOf(v[i][0], vpartdot)
    /\ pc' = "div"
    /\ UNCHANGED <<m, n, a, v, i, j, vpartdot, vTa, pending, hist, oob, mainVars>>

\* line 54: scalar_div(v[i], vnorm, m - i, v[i]), then j = i of line 56
Div ==
    /\ pc = "div"
    /\ v' = [v EXCEPT ![i] = scalar_div(v[i], vnorm, ActiveLen(m, i), v[i])]
    /\ zeroNorm' = IF IsZero(vnorm) THEN zeroNorm \cup {i} ELSE zeroNorm
    /\ j' = InnerStart(i)
    /\ pending' = {c \in DOMAIN a : InnerStart(i) <= c /\ InnerCond(c, n)}
    /\ pc' = "reflect"
    /\ UNCHANGED <<m, n, a, i, locals, a0, aStart, oob, mainVars>>

\* lines 56-61, one pass of the inner loop: column j is reflected
Reflect ==
    /\ pc = "reflect"
    /\ InnerCond(j, n)
    /\ IF /\ j \in DOMAIN a
          /\ DotColumn(i, j) \in DOMAIN a
          /\ InRange(a[j], i, ActiveLen(m, i))
       THEN /\ vTa' = Coef(a[DotColumn(i, j)], v[i], ActiveLen(m, i), i)
            /\ a' = ReflectColumn(a, v[i], m, i, j)
            /\ j' = j + 1
            /\ pending' = pending \ {j}
            /\ UNCHANGED <<m, n, v, i, vpartdot, vnorm, pc, hist, oob, mainVars>>
       ELSE Undefined

\* the inner loop ends (j < n fails) and the outer loop's i++ runs
InnerExit ==
    /\ pc = "reflect"
    /\ ~InnerCond(j, n)
    /\ i' = i + 1
    /\ pc' = "copy"
    /\ UNCHANGED <<m, n, a, v, j, locals, pending, hist, oob, mainVars>>

\* the outer loop ends (i < n fails): householder returns
Return ==
    /\ pc = "copy"
    /\ ~OuterCond(i, n)
    /\ pc' = IF caller = "main" THEN "normcheck" ELSE "done"
    /\ UNCHANGED <<m, n, a, v, i, j, locals, pending, hist, oob, mainVars>>

(* ----------------- householder called on a caller's matrix ------------ *)
\* the shapes <<m, n>> with 1 <= n <= m and m + n <= MaxSize
Shapes == {d \in (1 .. MaxSize) \X (1 .. MaxSize) : d[2] <= d[1] /\ d[1] + d[2] <= MaxSize}
Entries == {FromInt(k) : k \in Vals}
\* new double[m - i] for each i: allocated, not initialised
FreshV(mm, nn) == [k \in 0 .. nn - 1 |-> [r \in 0 .. mm - k - 1 |-> NaN]]

\* the state at the entry of householder, after i = 0 of line 34. The locals
\* and the cells of v are not initialised: they hold NaN here, and each is
\* written before it is first read.
Init ==
    /\ \E d \in Shapes :
          /\ m = d[1]
          /\ n = d[2]
          /\ a \in [0 .. d[2] - 1 -> [0 .. d[1] - 1 -> Entries]]
          /\ v = FreshV(d[1], d[2])
    /\ i = 0
    /\ j = 0
    /\ vpartdot = NaN
    /\ vnorm = NaN
    /\ vTa = NaN
    /\ x = NaN
    /\ pc = "copy"
    /\ pending = {}
    /\ caller = "none"
    /\ exitCode = -1
    /\ a0 = a
    /\ aStart = a
    /\ zeroNorm = {}
    /\ oob = FALSE

Next == Copy \/ PartDot \/ Sign \/ Norm \/ Div \/ Reflect \/ InnerExit \/ Return

Spec == Init /\ [][Next]_vars

(* ------------- the inner loop run as a parallel for-each -------------- *)
\* lines 56-61 with the columns taken in any order: one pending column c is
\* reflected by the body of the loop
ReflectAny ==
    /\ pc = "reflect"
    /\ \E c \in pending :
          /\ vTa' = Coef(a[DotColumn(i, c)], v[i], ActiveLen(m, i), i)
          /\ a' = ReflectColumn(a, v[i], m, i, c)
          /\ pending' = pending \ {c}
    /\ UNCHANGED <<m, n, v, i, j, vpartdot, vnorm, pc, hist, oob, mainVars>>

\* the join at the end of the outer iteration, then i++
Join ==
    /\ pc = "reflect"
    /\ pending = {}
    /\ i' = i + 1
    /\ pc' = "copy"
    /\ UNCHANGED <<m, n, a, v, j, locals, pending, hist, oob, mainVars>>

NextPar == Copy \/ PartDot \/ Sign \/ Norm \/ Div \/ ReflectAny \/ Join \/ Return

SpecPar == Init /\ [][NextPar]_vars

(* ------------------------------- main --------------------------------- *)
\* the integers scanf may store in m and n
Dims == -1 .. MaxDim

\* lines 91-101: a[i][j] = 0 above the diagonal position, j - i + 1 from it on
FillValue(col, row) == IF row < col THEN Zero ELSE FromInt(row - col + 1)

\* lines 70-74: the two dimensions are read
Scan ==
    /\ pc = "scan"
    /\ m' \in Dims
    /\ n' \in Dims
    /\ pc' = "check"
    /\ UNCHANGED <<a, v, i, j, locals, pending, hist, oob, mainVars>>

\* lines 76-81: m < n is rejected with exit code 0
Check ==
    /\ pc = "check"
    /\ pc' = IF m < n THEN "exit" ELSE "alloc"
    /\ exitCode' = IF m < n THEN 0 ELSE exitCode
    /\ UNCHANGED <<m, n, a, v, i, j, locals, pending, hist, oob, x, caller>>

\* lines 83-89: new double*[n] throws for a negative n, which nothing
\* catches: the program is terminated. Otherwise n columns of m cells and
\* n vectors of m - i cells are allocated.
Alloc ==
    /\ pc = "alloc"
    /\ IF n < 0
       THEN /\ pc' = "abort"
            /\ UNCHANGED <<a, v>>
       ELSE /\ pc' = "fill"
            /\ a' = [c \in 0 .. n - 1 |-> [r \in 0 .. m - 1 |-> NaN]]
            /\ v' = FreshV(m, n)
    /\ UNCHANGED <<m, n, i, j, locals, pending, hist, oob, mainVars>>

\* lines 91-101: the test matrix
Fill ==
    /\ pc = "fill"
    /\ a' = [c \in 0 .. n - 1 |-> [r \in 0 .. m - 1 |-> FillValue(c, r)]]
    /\ pc' = "call"
    /\ UNCHANGED <<m, n, v, i, j, locals, pending, hist, oob, mainVars>>

\* line 114: householder(a, v, m, n)
Call ==
    /\ pc = "call"
    /\ caller' = "main"
    /\ i' = 0
    /\ a0' = a
    /\ aStart' = a
    /\ pc' = "copy"
    /\ UNCHANGED <<m, n, a, v, j, locals, pending, zeroNorm, oob, x, exitCode>>

\* lines 136-147: the squared norms of v[0] .. v[n-2], then of v[n-1]
NormCheck ==
    /\ pc = "normcheck"
    /\ IF n - 1 \in DOMAIN v
       THEN /\ x' = dot_product(v[n - 1], v[n - 1], m - n + 1)
            /\ pc' = "free"
            /\ UNCHANGED <<m, n, a, v, i, j, locals, pending, hist, oob, caller, exitCode>>
       ELSE Undefined

\* lines 151-158: the arrays are freed and main returns 0
Free ==
    /\ pc = "free"
    /\ pc' = "exit"
    /\ exitCode' = 0
    /\ UNCHANGED <<m, n, a, v, i, j, locals, pending, hist, oob, x, caller>>

InitMain ==
    /\ m = 0
    /\ n = 0
    /\ a = EmptyVec
    /\ v = EmptyVec
    /\ i = 0
    /\ j = 0
    /\ vpartdot = NaN
    /\ vnorm = NaN
    /\ vTa = NaN
    /\ x = NaN
    /\ pc = "scan"
    /\ pending = {}
    /\ caller = "none"
    /\ exitCode = -1
    /\ a0 = EmptyVec
    /\ aStart = EmptyVec
    /\ zeroNorm = {}
    /\ oob = FALSE

NextMain ==
    \/ Scan \/ Check \/ Alloc \/ Fill \/ Call \/ NormCheck \/ Free
    \/ Copy \/ PartDot \/ Sign \/ Norm \/ Div \/ Reflect \/ InnerExit \/ Return

SpecMain == InitMain /\ [][NextMain]_vars

(* ======================== the properties checked ====================== *)
One == FromInt(1)
MinusOne == FromInt(-1)
\* the tolerance: TolUlps units in the last place of 1
Tol == Round(TolUlps, -Prec)
\* |p - q| <= Tol * scale
Within(p, q, scale) == FLeq(FAbs(FSub(p, q)), FMul(Tol, scale))

RECURSIVE MaxAbsVec(_, _, _)
MaxAbsVec(vec, k, acc) ==
    IF k \notin DOMAIN vec THEN acc
    ELSE MaxAbsVec(vec, k + 1, IF FLess(acc, FAbs(vec[k])) THEN FAbs(vec[k]) ELSE acc)
RECURSIVE MaxAbsMat(_, _, _)
MaxAbsMat(mat, k, acc) ==
    IF k \notin DOMAIN mat THEN acc
    ELSE MaxAbsMat(mat, k + 1, MaxAbsVec(mat[k], 0, acc))
\* the largest magnitude among the entries of the input matrix
InputScale == MaxAbsMat(a0, 0, Zero)

\* householder has returned and no iteration met an all-zero active sub-column
ValidRun == pc = "done" /\ zeroNorm = {}
SomeNonzero(vec, lo) == \E k \in DOMAIN vec : k >= lo /\ ~IsZero(vec[k])

\* C1: once an outer iteration has computed a zero norm, the reducer is at
\* the check of that norm or has signalled ZeroNormError, and no column
\* j >= i has been modified in that iteration: it never divides by the zero
\* norm and never goes on into the column updates.
C1_ZeroNormError ==
    IsZero(vnorm) =>
        /\ pc \in {"div", "error"}
        /\ \A c \in DOMAIN a : c >= i => a[c] = aStart[c]

\* C2: main calls householder (and so reaches the v[n-1] norm check) only
\* with n <= m, m >= 1 and n >= 1.
C2_DriverChecksDimensions ==
    caller = "main" => (n <= m /\ m >= 1 /\ n >= 1)

\* C3: after a valid run every reflection vector has unit norm: the squared
\* norm dot_product(v[k], v[k], m - k), as main computes it, is 1 within the
\* tolerance.
C3_UnitNorm ==
    ValidRun => \A k \in 0 .. n - 1 : Within(dot_product(v[k], v[k], m - k), One, One)

C3_Witness ==
    /\ ValidRun
    /\ n >= 2
    /\ \A k \in 0 .. n - 1 : SomeNonzero(v[k], 1)

\* C4: after a valid run the matrix is upper triangular: every entry a[c][r]
\* with r > c, the rows r >= n of a tall matrix included, is zero within the
\* tolerance (relative to the largest input entry).
C4_UpperTriangular ==
    ValidRun =>
        \A c \in 0 .. n - 1 : \A r \in 0 .. m - 1 :
            r > c => Within(a[c][r], Zero, InputScale)

C4_Witness ==
    /\ ValidRun
    /\ m > n
    /\ n >= 2
    /\ \A c \in 0 .. n - 1 : ~IsZero(a0[c][m - 1]) /\ ~IsZero(a0[c][c + 1])

\* the reflectors H_k, k = top, top-1, ..., 0, applied to one column, each on
\* the rows k .. m-1: col[k:m] = col[k:m] - 2 * (v[k]^T col[k:m]) * v[k]
RECURSIVE ApplyBack(_, _, _, _)
ApplyBack(col, vecs, top, mm) ==
    IF top < 0 THEN col
    ELSE ApplyBack(
            partialscalar_sub(vecs[top],
                FMul(subdot_product(col, vecs[top], mm - top, top), FromInt(2)),
                mm - top, top, col),
            vecs, top - 1, mm)

\* C5: round trip. After a valid run, applying H_{n-1}, ..., H_0 in this order
\* to every column of the output R gives back the input A within the
\* tolerance: Q * R = A with Q = H_0 H_1 ... H_{n-1}.
C5_RoundTrip ==
    ValidRun =>
        \A c \in 0 .. n - 1 : \A r \in 0 .. m - 1 :
            Within(ApplyBack(a[c], v, n - 1, m)[r], a0[c][r], InputScale)

C5_Witness ==
    /\ ValidRun
    /\ n >= 2
    /\ m > n
    /\ \A c \in 0 .. n - 1 : a[c] # a0[c] /\ SomeNonzero(v[c], 1)

\* the single entry the last iteration of a square matrix started from
LastEntry == At(Row(aStart, n - 1), n - 1)
SquareDone == pc = "done" /\ n = m

FrameStep ==
    /\ DOMAIN a' = DOMAIN a
    /\ \A c \in DOMAIN a : \A r \in DOMAIN a[c] :
          (c < i \/ r < i) => At(Row(a', c), r) = a[c][r]
    /\ \A k \in DOMAIN v : k # i => Row(v', k) = v[k]
C7_Frame == [][FrameStep]_vars

C7_Witness ==
    /\ pc = "reflect"
    /\ i >= 1
    /\ j > i
    /\ \A c \in i .. j - 1 : a[c] # aStart[c]

\* the inner loop of lines 56-61 run in its sequential order from column jj
RECURSIVE SeqInner(_, _, _, _, _, _)
SeqInner(mat, vi, mm, ii, jj, nn) ==
    IF ~InnerCond(jj, nn) \/ jj \notin DOMAIN mat THEN mat
    ELSE SeqInner(ReflectColumn(mat, vi, mm, ii, jj), vi, mm, ii, jj + 1, nn)

C9_SignRule ==
    (pc = "norm" /\ ~a[i][i].nan /\ ~vpartdot.nan) =>
        LET x0 == a[i][i]
            s  == FSqrt(FAdd(FMul(x0, x0), vpartdot))
            v0 == v[i][0]
        IN  /\ FLess(x0, Zero) => v0 = FSub(x0, s) /\ FLeq(v0, x0)
            /\ ~FLess(x0, Zero) => v0 = FAdd(x0, s) /\ FLeq(x0, v0)
            /\ ~(FLess(x0, Zero) /\ FLess(Zero, v0))
            /\ ~(FLess(Zero, x0) /\ FLess(v0, Zero))
            /\ FLeq(FAbs(x0), FAbs(v0))

\* the copied first entry is zero and the tail is not: zero counts as positive
C9_Witness ==
    /\ pc = "norm"
    /\ IsZero(a[i][i])
    /\ ~vpartdot.nan
    /\ ~IsZero(vpartdot)
    /\ FLess(Zero, v[i][0])

\* the arrays have the shape the caller allocated
Shaped ==
    /\ DOMAIN a = 0 .. n - 1
    /\ DOMAIN v = 0 .. n - 1
    /\ \A c \in 0 .. n - 1 : DOMAIN a[c] = 0 .. m - 1 /\ DOMAIN v[c] = 0 .. m - c - 1

\* what is left of the run: the outer iterations to come, each of at most
\* n + 7 steps, and the steps left of the current one
StepsLeft ==
    (n - i) * (n + 7) +
        (CASE pc = "copy"    -> n + 6
           [] pc = "dot"     -> n + 5
           [] pc = "sign"    -> n + 4
           [] pc = "norm"    -> n + 3
           [] pc = "div"     -> n + 2
           [] pc = "reflect" -> n - j + 1
           [] OTHER          -> 0)

SafeIndices ==
    /\ ~oob
    /\ pc \in {"copy", "dot", "sign", "norm", "div", "reflect", "done"}
    /\ Shaped
    /\ i \in 0 .. n
    /\ pc \in {"dot", "sign", "norm", "div", "reflect"} =>
          /\ i \in 0 .. n - 1
          /\ ActiveLen(m, i) >= 1
          /\ InRange(Row(v, i), 0, ActiveLen(m, i))
          /\ InRange(Row(a, i), i, ActiveLen(m, i))
    /\ pc = "reflect" =>
          /\ j \in i .. n
          /\ InnerCond(j, n) => j \in DOMAIN a /\ InRange(Row(a, j), i, ActiveLen(m, i))
    /\ pc = "copy" /\ OuterCond(i, n) =>
          /\ i \in DOMAIN a
          /\ ActiveLen(m, i) >= 1
          /\ InRange(Row(a, i), i, ActiveLen(m, i))
          /\ InRange(Row(v, i), 0, ActiveLen(m, i))
    /\ pc = "done" => i = n
    /\ StepsLeft >= 0

\* C10: index safety. With 1 <= n <= m no access leaves its array: i stays
\* in [0, n] and in [0, n) inside the loop body, j in [i, n], the active
\* length m - i is at least 1, the rows touched are i .. m-1 of a[j] and
\* 0 .. m-i-1 of v[i]; every step brings the return nearer, and the function
\* returns with i = n, after exactly n outer iterations.
C10_IndexSafety == []SafeIndices /\ [][StepsLeft' < StepsLeft]_vars

C10_Witness ==
    /\ pc = "done"
    /\ ~oob
    /\ n >= 2
    /\ m > n
    /\ i = n
=============================================================================
